---- MODULE Spec2Model ----
(***************************************************************************)
(* Verification model of quantatic/rust-microbenchmarks.                   *)
(*                                                                         *)
(*   SpecMain   : src/main.rs, the pinned getpid micro-benchmark, with     *)
(*                serialized_time executed one instruction at a time.      *)
(*   SpecBench  : benches/benchmark.rs, the spawn/join groups of           *)
(*                system_benchmark and tokio_benchmark.                    *)
(*   SpecLevels : benches/benchmark.rs, the lazy_static thread counts.     *)
(***************************************************************************)
EXTENDS Integers, Sequences, FiniteSets, TLC

VARIABLES
    \* ---- src/main.rs ----
    pc,          \* position of main()
    pinned,      \* result of core_affinity::set_for_current
    pinCalls,    \* number of calls of set_for_current
    pinnedCore,  \* core id handed to set_for_current, NoValue before the call
    i,           \* completed iterations of `for _ in 0..NUM_RUNS`
    ip,          \* next instruction of the running serialized_time call
    issued,      \* instructions the running serialized_time call has issued
    reads,       \* values the running call obtained from the cycle counter
    result,      \* local `result` of serialized_time
    tsc,         \* hardware cycle counter of the pinned core
    start,       \* local `start`, NoValue when out of scope
    end,         \* local `end`, NoValue when out of scope
    delta,       \* last value of `end - start`
    total,       \* total_difference
    sumDeltas,   \* exact (unbounded) sum of the differences end - start
    wrapped,     \* TRUE once a u64 operation left the range of u64
    payloads,    \* calls of bench() in the current iteration
    syscalls,    \* calls of bench() over the whole run
    printed,     \* lines written to standard output
    \* ---- benches/benchmark.rs, spawn/join groups ----
    cell,        \* index of the bench_function being run
    numThreads,  \* values of NUM_THREADS_SMALL / LARGE / HUGE
    phase,       \* position of the iteration closure
    grp,         \* sub-group being spawned
    units,       \* spawned units in spawn order
    joined,      \* handles whose result reached the caller
    unwrapped,   \* results of join_all already unwrapped
    finalCount,  \* per cell, the joined count of its last completed iteration
    \* ---- benches/benchmark.rs, lazy_static ----
    coreCount,   \* core_affinity::get_core_ids().unwrap().len()
    small,       \* NUM_THREADS_SMALL, Unset before first dereference
    large,       \* NUM_THREADS_LARGE
    huge         \* NUM_THREADS_HUGE

mainVars   == <<pc, pinned, pinCalls, pinnedCore, i, ip, issued, reads, result,
                tsc, start, end, delta, total, sumDeltas, wrapped, payloads,
                syscalls, printed>>
benchVars  == <<cell, numThreads, phase, grp, units, joined, unwrapped,
                finalCount>>
levelVars  == <<coreCount, small, large, huge>>
vars       == <<mainVars, benchVars, levelVars>>

NoValue == -1
Unset   == -1

(***************************************************************************)
(* Bounds.  u64 is modelled as a word of WordBits bits; NUM_RUNS is the     *)
(* loop count of main() scaled down from 100_000.                           *)
(***************************************************************************)
WordBits == 3
NUM_RUNS == 3
MaxUnits == 3
MaxCores == 64

U64_MOD == 2 ^ WordBits
U64_MAX == U64_MOD - 1

(***************************************************************************)
(*                            src/main.rs                                  *)
(***************************************************************************)

\* u64 `a - b` / `a + b`: wraps in a release build.
Sub64(a, b) == (a - b + U64_MOD) % U64_MOD
Add64(a, b) == (a + b) % U64_MOD
\* the same operations leave the range of u64 (a debug build panics there)
Sub64Overflows(a, b) == a < b
Add64Overflows(a, b) == a + b > U64_MAX

\* serialized_time without the fences that follow the second cpuid
SerializedTimeNoTrailingFences ==
    << "lfence", "mfence", "sfence", "cpuid",
       "lfence", "mfence", "sfence", "rdtsc",
       "lfence", "mfence", "sfence", "cpuid" >>

\* body of serialized_time, main.rs lines 12-26
SerializedTimeCode ==
    << "lfence", "mfence", "sfence", "cpuid",
       "lfence", "mfence", "sfence", "rdtsc",
       "lfence", "mfence", "sfence", "cpuid",
       "lfence", "mfence", "sfence" >>

Fences == {"lfence", "mfence", "sfence"}

InCall == pc \in {"ts_start", "ts_end"}

\* assert! that ignores the result of set_for_current
AssertPinnedIgnored(ok) == "loop"

\* assert!(set_for_current(..)): panic when the pin is refused
AssertPinned(ok) == IF ok THEN "loop" ELSE "aborted"

\* the operands of the subtraction exchanged
DifferenceSwapped(s, e) == Sub64(s, e)

\* `end - start`
Difference(s, e) == Sub64(e, s)

\* mean computed over one run too many
MeanOffByOne(t) == t \div (NUM_RUNS + 1)

\* `total_difference / NUM_RUNS`
Mean(t) == t \div NUM_RUNS

InitMain ==
    /\ pc = "pin"
    /\ pinned = FALSE
    /\ pinCalls = 0
    /\ pinnedCore = NoValue
    /\ i = 0
    /\ ip = 0
    /\ issued = << >>
    /\ reads = << >>
    /\ result = NoValue
    /\ tsc \in 0 .. U64_MAX
    /\ start = NoValue
    /\ end = NoValue
    /\ delta = NoValue
    /\ total = 0
    /\ sumDeltas = 0
    /\ wrapped = FALSE
    /\ payloads = 0
    /\ syscalls = 0
    /\ printed = << >>
    \* the parts this specification does not exercise rest
    /\ cell = 1 /\ numThreads = [Small |-> 0, Large |-> 0, Huge |-> 0]
    /\ phase = "idle" /\ grp = 1 /\ units = << >> /\ joined = 0
    /\ unwrapped = 0 /\ finalCount = << >>
    /\ coreCount = 1 /\ small = Unset /\ large = Unset /\ huge = Unset

\* the cycle counter advances; it is monotonic on the pinned core
Tick ==
    /\ pc \notin {"exit", "aborted"}
    /\ tsc < U64_MAX
    /\ tsc' = tsc + 1
    /\ UNCHANGED <<benchVars, levelVars>>
    /\ UNCHANGED <<pc, pinned, pinCalls, pinnedCore, i, ip, issued, reads,
                   result, start, end, delta, total, sumDeltas, wrapped,
                   payloads, syscalls, printed>>

Pin ==
    /\ pc = "pin"
    /\ \E ok \in BOOLEAN :
          /\ pinned' = ok
          /\ pc' = AssertPinned(ok)
    /\ pinCalls' = pinCalls + 1
    /\ pinnedCore' = 0
    /\ UNCHANGED <<benchVars, levelVars>>
    /\ UNCHANGED <<i, ip, issued, reads, result, tsc, start, end, delta,
                   total, sumDeltas, wrapped, payloads, syscalls, printed>>

\* `for _ in 0..NUM_RUNS`: enter the next iteration and call serialized_time
LoopEnter ==
    /\ pc = "loop"
    /\ i < NUM_RUNS
    /\ pc' = "ts_start"
    /\ ip' = 1
    /\ issued' = << >>
    /\ reads' = << >>
    /\ result' = NoValue
    /\ payloads' = 0
    /\ UNCHANGED <<benchVars, levelVars>>
    /\ UNCHANGED <<pinned, pinCalls, pinnedCore, i, tsc, start, end, delta,
                   total, sumDeltas, wrapped, syscalls, printed>>

LoopExit ==
    /\ pc = "loop"
    /\ i >= NUM_RUNS
    /\ pc' = "print_total"
    /\ UNCHANGED <<benchVars, levelVars>>
    /\ UNCHANGED <<pinned, pinCalls, pinnedCore, i, ip, issued, reads, result,
                   tsc, start, end, delta, total, sumDeltas, wrapped,
                   payloads, syscalls, printed>>

ExecFence ==
    /\ InCall
    /\ ip \in 1 .. Len(SerializedTimeCode)
    /\ SerializedTimeCode[ip] \in Fences
    /\ issued' = Append(issued, SerializedTimeCode[ip])
    /\ ip' = ip + 1
    /\ UNCHANGED <<benchVars, levelVars>>
    /\ UNCHANGED <<pc, pinned, pinCalls, pinnedCore, i, reads, result, tsc,
                   start, end, delta, total, sumDeltas, wrapped, payloads,
                   syscalls, printed>>

ExecCpuid ==
    /\ InCall
    /\ ip \in 1 .. Len(SerializedTimeCode)
    /\ SerializedTimeCode[ip] = "cpuid"
    /\ issued' = Append(issued, "cpuid")
    /\ ip' = ip + 1
    /\ UNCHANGED <<benchVars, levelVars>>
    /\ UNCHANGED <<pc, pinned, pinCalls, pinnedCore, i, reads, result, tsc,
                   start, end, delta, total, sumDeltas, wrapped, payloads,
                   syscalls, printed>>

\* `let result = _rdtsc();`
ExecRdtsc ==
    /\ InCall
    /\ ip \in 1 .. Len(SerializedTimeCode)
    /\ SerializedTimeCode[ip] = "rdtsc"
    /\ issued' = Append(issued, "rdtsc")
    /\ reads' = Append(reads, tsc)
    /\ result' = tsc
    /\ ip' = ip + 1
    /\ UNCHANGED <<benchVars, levelVars>>
    /\ UNCHANGED <<pc, pinned, pinCalls, pinnedCore, i, tsc, start, end,
                   delta, total, sumDeltas, wrapped, payloads, syscalls,
                   printed>>

\* serialized_time returns `result` into `start`
ReturnStart ==
    /\ pc = "ts_start"
    /\ ip = Len(SerializedTimeCode) + 1
    /\ start' = result
    /\ pc' = "bench"
    /\ ip' = 0
    /\ UNCHANGED <<benchVars, levelVars>>
    /\ UNCHANGED <<pinned, pinCalls, pinnedCore, i, issued, reads, result,
                   tsc, end, delta, total, sumDeltas, wrapped, payloads,
                   syscalls, printed>>

\* bench(): one raw getpid system call, then the second serialized_time call
Bench ==
    /\ pc = "bench"
    /\ payloads' = payloads + 1
    /\ syscalls' = syscalls + 1
    /\ pc' = "ts_end"
    /\ ip' = 1
    /\ issued' = << >>
    /\ reads' = << >>
    /\ result' = NoValue
    /\ UNCHANGED <<benchVars, levelVars>>
    /\ UNCHANGED <<pinned, pinCalls, pinnedCore, i, tsc, start, end, delta,
                   total, sumDeltas, wrapped, printed>>

\* serialized_time returns `result` into `end`
ReturnEnd ==
    /\ pc = "ts_end"
    /\ ip = Len(SerializedTimeCode) + 1
    /\ end' = result
    /\ pc' = "accumulate"
    /\ ip' = 0
    /\ UNCHANGED <<benchVars, levelVars>>
    /\ UNCHANGED <<pinned, pinCalls, pinnedCore, i, issued, reads, result,
                   tsc, start, delta, total, sumDeltas, wrapped, payloads,
                   syscalls, printed>>

\* `total_difference += end - start;` and the end of the loop body
Accumulate ==
    /\ pc = "accumulate"
    /\ delta' = Difference(start, end)
    /\ total' = Add64(total, Difference(start, end))
    /\ sumDeltas' = sumDeltas + (end - start)
    /\ wrapped' = (wrapped \/ Sub64Overflows(end, start)
                           \/ Add64Overflows(total, Difference(start, end)))
    /\ i' = i + 1
    /\ start' = NoValue
    /\ end' = NoValue
    /\ pc' = "loop"
    /\ UNCHANGED <<benchVars, levelVars>>
    /\ UNCHANGED <<pinned, pinCalls, pinnedCore, ip, issued, reads, result,
                   tsc, payloads, syscalls, printed>>

\* println!("elapsed cycles: {}", total_difference)
PrintTotal ==
    /\ pc = "print_total"
    /\ printed' = Append(printed, total)
    /\ pc' = "print_mean"
    /\ UNCHANGED <<benchVars, levelVars>>
    /\ UNCHANGED <<pinned, pinCalls, pinnedCore, i, ip, issued, reads, result,
                   tsc, start, end, delta, total, sumDeltas, wrapped,
                   payloads, syscalls>>

\* println!("average cycles: {}", total_difference / NUM_RUNS)
PrintMean ==
    /\ pc = "print_mean"
    /\ printed' = Append(printed, Mean(total))
    /\ pc' = "exit"
    /\ UNCHANGED <<benchVars, levelVars>>
    /\ UNCHANGED <<pinned, pinCalls, pinnedCore, i, ip, issued, reads, result,
                   tsc, start, end, delta, total, sumDeltas, wrapped,
                   payloads, syscalls>>

NextMain ==
    \/ Tick \/ Pin \/ LoopEnter \/ LoopExit \/ ExecFence \/ ExecCpuid
    \/ ExecRdtsc \/ ReturnStart \/ Bench \/ ReturnEnd \/ Accumulate
    \/ PrintTotal \/ PrintMean

(***************************************************************************)
(*            benches/benchmark.rs : the benchmark cells                   *)
(***************************************************************************)

\* one `(0..count).map(|_| prim(work)).collect()` of a cell
Group(prim, work, level) == [prim |-> prim, work |-> work, level |-> level]

\* one bench_function: family is the API under test as the name declares it,
\* join the way the handles are awaited, declared the order the name declares
Cell(name, family, join, declared, groups) ==
    [name |-> name, family |-> family, join |-> join,
     declared |-> declared, groups |-> groups]

\* the mixed task cell with both cells spawning the worker tasks first
TokioTaskCellsWorkersAlwaysFirst == <<
    Cell("spawn tokio thread", "task", "join", "none",
         << Group("spawn", "empty", "Single") >>),
    Cell("spawn single tokio thread expensive calculation", "task", "join", "none",
         << Group("spawn", "fib", "Single") >>),
    Cell("spawn single tokio thread sleep", "task", "join", "none",
         << Group("spawn", "sleep", "Single") >>),
    Cell("spawn small tokio thread expensive calculation", "task", "join_all", "none",
         << Group("spawn", "fib", "Small") >>),
    Cell("spawn small tokio thread sleep", "task", "join_all", "none",
         << Group("spawn", "sleep", "Small") >>),
    Cell("spawn large tokio thread expensive calculation", "task", "join_all", "none",
         << Group("spawn", "fib", "Large") >>),
    Cell("spawn large tokio thread sleep", "task", "join_all", "none",
         << Group("spawn", "sleep", "Large") >>),
    Cell("spawn huge tokio thread sleep", "task", "join_all", "none",
         << Group("spawn", "sleep", "Huge") >>),
    Cell("spawn tokio thread large worker huge sleep complex workload worker tasks first",
         "task", "join_all", "work_first",
         << Group("spawn", "fib", "Large"), Group("spawn", "sleep", "Huge") >>),
    Cell("spawn tokio thread large worker huge sleep complex workload sleep tasks first",
         "task", "join_all", "sleep_first",
         << Group("spawn", "fib", "Large"), Group("spawn", "sleep", "Huge") >>) >>

\* system_benchmark, benchmark.rs lines 43-149
SystemCells == <<
    Cell("spawn os thread", "os", "join", "none",
         << Group("thread_spawn", "empty", "Single") >>),
    Cell("spawn single os thread expensive calculation", "os", "join", "none",
         << Group("thread_spawn", "fib", "Single") >>),
    Cell("spawn single os thread sleep", "os", "join", "none",
         << Group("thread_spawn", "sleep", "Single") >>),
    Cell("spawn small multiple os thread expensive calculation", "os", "join", "none",
         << Group("thread_spawn", "fib", "Small") >>),
    Cell("spawn small multiple os thread sleep", "os", "join", "none",
         << Group("thread_spawn", "sleep", "Small") >>),
    Cell("spawn large multiple os thread expensive calculation", "os", "join", "none",
         << Group("thread_spawn", "fib", "Large") >>),
    Cell("spawn large multiple os thread sleep", "os", "join", "none",
         << Group("thread_spawn", "sleep", "Large") >>),
    Cell("spawn huge multiple os thread sleep", "os", "join", "none",
         << Group("thread_spawn", "sleep", "Huge") >>),
    Cell("spawn os thread large worker huge sleep complex workload", "os", "join", "work_first",
         << Group("thread_spawn", "fib", "Large"),
            Group("thread_spawn", "sleep", "Huge") >>) >>

\* tokio_benchmark, lightweight tasks, benchmark.rs lines 153-312
TokioTaskCells == <<
    Cell("spawn tokio thread", "task", "join", "none",
         << Group("spawn", "empty", "Single") >>),
    Cell("spawn single tokio thread expensive calculation", "task", "join", "none",
         << Group("spawn", "fib", "Single") >>),
    Cell("spawn single tokio thread sleep", "task", "join", "none",
         << Group("spawn", "sleep", "Single") >>),
    Cell("spawn small tokio thread expensive calculation", "task", "join_all", "none",
         << Group("spawn", "fib", "Small") >>),
    Cell("spawn small tokio thread sleep", "task", "join_all", "none",
         << Group("spawn", "sleep", "Small") >>),
    Cell("spawn large tokio thread expensive calculation", "task", "join_all", "none",
         << Group("spawn", "fib", "Large") >>),
    Cell("spawn large tokio thread sleep", "task", "join_all", "none",
         << Group("spawn", "sleep", "Large") >>),
    Cell("spawn huge tokio thread sleep", "task", "join_all", "none",
         << Group("spawn", "sleep", "Huge") >>),
    Cell("spawn tokio thread large worker huge sleep complex workload worker tasks first",
         "task", "join_all", "work_first",
         << Group("spawn", "fib", "Large"), Group("spawn", "sleep", "Huge") >>),
    Cell("spawn tokio thread large worker huge sleep complex workload sleep tasks first",
         "task", "join_all", "sleep_first",
         << Group("spawn", "sleep", "Huge"), Group("spawn", "fib", "Large") >>) >>

\* tokio_benchmark, blocking offload, benchmark.rs lines 314-453
TokioBlockingCells == <<
    Cell("spawn tokio blocking thread", "blocking", "join", "none",
         << Group("spawn_blocking", "empty", "Single") >>),
    Cell("spawn single tokio blocking thread expensive calculation", "blocking", "join", "none",
         << Group("spawn_blocking", "fib", "Single") >>),
    Cell("spawn single tokio blocking thread sleep", "blocking", "join", "none",
         << Group("spawn_blocking", "sleep", "Single") >>),
    Cell("spawn small tokio blocking thread expensive calculation", "blocking", "join_all", "none",
         << Group("spawn_blocking", "fib", "Small") >>),
    Cell("spawn small tokio blocking thread sleep", "blocking", "join_all", "none",
         << Group("spawn_blocking", "sleep", "Small") >>),
    Cell("spawn large tokio blocking thread expensive calculation", "blocking", "join_all", "none",
         << Group("spawn_blocking", "fib", "Large") >>),
    Cell("spawn large tokio blocking thread sleep", "blocking", "join_all", "none",
         << Group("spawn_blocking", "sleep", "Large") >>),
    Cell("spawn huge tokio blocking thread sleep", "blocking", "join_all", "none",
         << Group("spawn_blocking", "sleep", "Huge") >>),
    Cell("spawn tokio blocking thread large worker huge sleep complex workload",
         "blocking", "join_all", "work_first",
         << Group("spawn_blocking", "fib", "Large"),
            Group("spawn", "sleep", "Huge") >>) >>

\* criterion_group!(benches, .., system_benchmark, tokio_benchmark, ..)
Cells == SystemCells \o TokioTaskCells \o TokioBlockingCells

CellIds == 1 .. Len(Cells)
ThisCell == Cells[cell]

\* number of units of one sub-group
GroupCount(g) == IF g.level = "Single" THEN 1 ELSE numThreads[g.level]

RECURSIVE SumCounts(_)
SumCounts(gs) == IF gs = << >> THEN 0
                 ELSE GroupCount(Head(gs)) + SumCounts(Tail(gs))

\* number of units the cell spawns in one iteration
CellCount(c) == SumCounts(Cells[c].groups)

\* units of sub-group g spawned so far
SpawnedOf(g) == Cardinality({u \in 1 .. Len(units) : units[u].grp = g})

Terminated(u) == units[u].status # "running"

\* a join that returns without waiting for the unit
JoinReturnsAtOnce(u) == TRUE

\* JoinHandle::join / awaiting a JoinHandle: returns once the unit terminated
JoinReady(u) == Terminated(u)

\* join_all: resolves once every future of the collection resolved
JoinAllReady == \A u \in 1 .. Len(units) : JoinReady(u)

\* an unwrap that discards the error
UnwrapSwallows(u) == "ok"

\* Result::unwrap on the join result: Err carries the unit's panic
Unwrap(u) == IF units[u].status = "panicked" THEN "panic" ELSE "ok"

\* the thread counts are drawn from 0 .. MaxUnits in the shape the derivation
\* gives them: all zero (one core), or Small < Large < Huge
InitBench ==
    /\ cell = 1
    /\ numThreads \in
         { [Small |-> s, Large |-> l, Huge |-> h] :
             s \in 0 .. MaxUnits, l \in 0 .. MaxUnits, h \in 0 .. MaxUnits }
    /\ \/ numThreads.Small = 0 /\ numThreads.Large = 0 /\ numThreads.Huge = 0
       \/ /\ 0 < numThreads.Small
          /\ numThreads.Small < numThreads.Large
          /\ numThreads.Large < numThreads.Huge
    /\ phase = "spawning"
    /\ grp = 1
    /\ units = << >>
    /\ joined = 0
    /\ unwrapped = 0
    /\ finalCount = [c \in CellIds |-> NoValue]
    \* the parts this specification does not exercise rest
    /\ pc = "exit" /\ pinned = FALSE /\ pinCalls = 0 /\ pinnedCore = NoValue
    /\ i = 0 /\ ip = 0 /\ issued = << >> /\ reads = << >> /\ result = NoValue
    /\ tsc = 0 /\ start = NoValue /\ end = NoValue /\ delta = NoValue
    /\ total = 0 /\ sumDeltas = 0 /\ wrapped = FALSE /\ payloads = 0
    /\ syscalls = 0 /\ printed = << >>
    /\ coreCount = 1 /\ small = Unset /\ large = Unset /\ huge = Unset

\* std::thread::spawn / tokio::task::spawn / spawn_blocking of the next unit
SpawnUnit ==
    /\ phase = "spawning"
    /\ grp <= Len(ThisCell.groups)
    /\ SpawnedOf(grp) < GroupCount(ThisCell.groups[grp])
    /\ units' = Append(units, [grp |-> grp,
                               prim |-> ThisCell.groups[grp].prim,
                               work |-> ThisCell.groups[grp].work,
                               status |-> "running"])
    /\ UNCHANGED <<cell, numThreads, phase, grp, joined, unwrapped, finalCount>>
    /\ UNCHANGED <<mainVars, levelVars>>

\* collect::<Vec<_>>() of one sub-group is complete
GroupSpawned ==
    /\ phase = "spawning"
    /\ grp <= Len(ThisCell.groups)
    /\ SpawnedOf(grp) = GroupCount(ThisCell.groups[grp])
    /\ grp' = grp + 1
    /\ phase' = IF grp = Len(ThisCell.groups) THEN "joining" ELSE "spawning"
    /\ UNCHANGED <<cell, numThreads, units, joined, unwrapped, finalCount>>
    /\ UNCHANGED <<mainVars, levelVars>>

\* a unit runs its workload to the end
UnitFinish ==
    /\ \E u \in 1 .. Len(units) :
          /\ units[u].status = "running"
          /\ units' = [units EXCEPT ![u].status = "done"]
    /\ UNCHANGED <<cell, numThreads, phase, grp, joined, unwrapped, finalCount>>
    /\ UNCHANGED <<mainVars, levelVars>>

\* a unit terminates by panic
UnitPanic ==
    /\ \E u \in 1 .. Len(units) :
          /\ units[u].status = "running"
          /\ units' = [units EXCEPT ![u].status = "panicked"]
    /\ UNCHANGED <<cell, numThreads, phase, grp, joined, unwrapped, finalCount>>
    /\ UNCHANGED <<mainVars, levelVars>>

\* `.map(|t| t.join().unwrap())` / `.await.unwrap()`: the next handle in
\* spawn order is joined and its result unwrapped
JoinNext ==
    /\ phase = "joining"
    /\ ThisCell.join = "join"
    /\ joined < Len(units)
    /\ JoinReady(joined + 1)
    /\ joined' = joined + 1
    /\ phase' = IF Unwrap(joined + 1) = "panic" THEN "aborted" ELSE "joining"
    /\ unwrapped' = IF Unwrap(joined + 1) = "panic" THEN unwrapped
                                                    ELSE unwrapped + 1
    /\ UNCHANGED <<cell, numThreads, grp, units, finalCount>>
    /\ UNCHANGED <<mainVars, levelVars>>

\* `join_all(tasks).await`: every handle yields its result at once
JoinAll ==
    /\ phase = "joining"
    /\ ThisCell.join = "join_all"
    /\ JoinAllReady
    /\ joined' = Len(units)
    /\ phase' = "unwrapping"
    /\ UNCHANGED grp
    /\ UNCHANGED <<cell, numThreads, units, unwrapped, finalCount>>
    /\ UNCHANGED <<mainVars, levelVars>>

\* `.into_iter().map(|res| res.unwrap())` over the results of join_all
UnwrapNext ==
    /\ phase = "unwrapping"
    /\ unwrapped < Len(units)
    /\ unwrapped' = unwrapped + 1
    /\ phase' = IF Unwrap(unwrapped + 1) = "panic" THEN "aborted"
                                                  ELSE "unwrapping"
    /\ UNCHANGED <<cell, numThreads, grp, units, joined, finalCount>>
    /\ UNCHANGED <<mainVars, levelVars>>

\* the iteration closure returns to criterion
Return ==
    /\ \/ phase = "joining" /\ ThisCell.join = "join" /\ joined = Len(units)
       \/ phase = "unwrapping" /\ unwrapped = Len(units)
    /\ phase' = "returned"
    /\ finalCount' = [finalCount EXCEPT ![cell] = joined]
    /\ UNCHANGED <<cell, numThreads, grp, units, joined, unwrapped>>
    /\ UNCHANGED <<mainVars, levelVars>>

\* b.iter runs the closure again
NextIter ==
    /\ phase = "returned"
    /\ phase' = "spawning"
    /\ grp' = 1
    /\ units' = << >>
    /\ joined' = 0
    /\ unwrapped' = 0
    /\ UNCHANGED <<cell, numThreads, finalCount>>
    /\ UNCHANGED <<mainVars, levelVars>>

\* criterion moves on to the next bench_function
NextCell ==
    /\ phase = "returned"
    /\ cell < Len(Cells)
    /\ cell' = cell + 1
    /\ phase' = "spawning"
    /\ grp' = 1
    /\ units' = << >>
    /\ joined' = 0
    /\ unwrapped' = 0
    /\ UNCHANGED <<numThreads, finalCount>>
    /\ UNCHANGED <<mainVars, levelVars>>

NextBench ==
    \/ SpawnUnit \/ GroupSpawned \/ UnitFinish \/ UnitPanic \/ JoinNext
    \/ JoinAll \/ UnwrapNext \/ Return \/ NextIter \/ NextCell

(***************************************************************************)
(*            benches/benchmark.rs : lazy_static thread counts             *)
(***************************************************************************)

\* core_affinity::get_core_ids().unwrap().len() / 2
NumThreadsSmall(cores) == cores \div 2
\* *NUM_THREADS_SMALL * 8
NumThreadsLarge(s) == s * 8
\* *NUM_THREADS_SMALL * 256
NumThreadsHuge(s) == s * 256

InitLevels ==
    /\ coreCount \in 1 .. MaxCores
    /\ small = Unset
    /\ large = Unset
    /\ huge = Unset
    \* the parts this specification does not exercise rest
    /\ pc = "exit" /\ pinned = FALSE /\ pinCalls = 0 /\ pinnedCore = NoValue
    /\ i = 0 /\ ip = 0 /\ issued = << >> /\ reads = << >> /\ result = NoValue
    /\ tsc = 0 /\ start = NoValue /\ end = NoValue /\ delta = NoValue
    /\ total = 0 /\ sumDeltas = 0 /\ wrapped = FALSE /\ payloads = 0
    /\ syscalls = 0 /\ printed = << >>
    /\ cell = 1 /\ numThreads = [Small |-> 0, Large |-> 0, Huge |-> 0]
    /\ phase = "idle" /\ grp = 1 /\ units = << >> /\ joined = 0
    /\ unwrapped = 0 /\ finalCount = << >>

\* first dereference of NUM_THREADS_SMALL
DerefSmall ==
    /\ small = Unset
    /\ small' = NumThreadsSmall(coreCount)
    /\ UNCHANGED <<coreCount, large, huge>>
    /\ UNCHANGED <<mainVars, benchVars>>

\* first dereference of NUM_THREADS_LARGE, which dereferences NUM_THREADS_SMALL
DerefLarge ==
    /\ large = Unset
    /\ small' = NumThreadsSmall(coreCount)
    /\ large' = NumThreadsLarge(NumThreadsSmall(coreCount))
    /\ UNCHANGED <<coreCount, huge>>
    /\ UNCHANGED <<mainVars, benchVars>>

\* first dereference of NUM_THREADS_HUGE, which dereferences NUM_THREADS_SMALL
DerefHuge ==
    /\ huge = Unset
    /\ small' = NumThreadsSmall(coreCount)
    /\ huge' = NumThreadsHuge(NumThreadsSmall(coreCount))
    /\ UNCHANGED <<coreCount, large>>
    /\ UNCHANGED <<mainVars, benchVars>>

NextLevels == DerefSmall \/ DerefLarge \/ DerefHuge

(***************************************************************************)
(*                           Specifications                                *)
(***************************************************************************)

SpecMain   == InitMain /\ [][NextMain]_vars
SpecBench  == InitBench /\ [][NextBench]_vars
SpecLevels == InitLevels /\ [][NextLevels]_vars

\* The workloads are bounded (fixed Fibonacci input, fixed sleep) and the
\* spawning thread is never suspended for good: every unit terminates and
\* the closure keeps taking its next step.
FairBench ==
    /\ WF_vars(SpawnUnit) /\ WF_vars(GroupSpawned)
    /\ WF_vars(UnitFinish \/ UnitPanic)
    /\ WF_vars(JoinNext) /\ WF_vars(JoinAll) /\ WF_vars(UnwrapNext)
    /\ WF_vars(Return)
FairSpecBench == SpecBench /\ FairBench

(***************************************************************************)
(*                              Properties                                 *)
(***************************************************************************)

CallComplete == InCall /\ ip > Len(SerializedTimeCode)

\* C1 (as stated): a complete call of serialized_time has issued exactly
\* lfence mfence sfence cpuid lfence mfence sfence rdtsc lfence mfence sfence
\* cpuid, nothing following the second cpuid, and returns the one value read.
C1_SequenceEndsWithCpuid ==
    CallComplete =>
        /\ issued = << "lfence", "mfence", "sfence", "cpuid",
                       "lfence", "mfence", "sfence", "rdtsc",
                       "lfence", "mfence", "sfence", "cpuid" >>
        /\ Len(reads) = 1
        /\ result = reads[1]

CodeSequence ==
    << "lfence", "mfence", "sfence", "cpuid",
       "lfence", "mfence", "sfence", "rdtsc",
       "lfence", "mfence", "sfence", "cpuid",
       "lfence", "mfence", "sfence" >>

\* C1 (amended): every call of serialized_time issues, in this order, the
\* three fences, cpuid, the three fences, the counter read, the three fences,
\* cpuid and the three fences once more; the counter is read exactly once and
\* the value handed to the caller (start, then end) is the value of that read.
C1_SequenceEndsWithFences ==
    /\ InCall =>
          /\ Len(issued) = ip - 1
          /\ Len(issued) <= Len(CodeSequence)
          /\ issued = SubSeq(CodeSequence, 1, Len(issued))
    /\ CallComplete =>
          /\ issued = CodeSequence
          /\ Len(reads) = 1
          /\ result = reads[1]
    /\ pc = "bench" => Len(reads) = 1 /\ start = reads[1]
    /\ pc = "accumulate" => Len(reads) = 1 /\ end = reads[1]

C1_Witness == pc = "ts_end" /\ CallComplete /\ tsc > reads[1]

\* C6: in every measured iteration the end timestamp is read after the
\* payload and is at least the start timestamp read before it, so the u64
\* difference end - start does not underflow and is the true difference.
C6_DeltaNonNegative ==
    /\ pc = "ts_start" => payloads = 0
    /\ pc = "ts_end" => payloads = 1 /\ start # NoValue
    /\ pc = "accumulate" =>
          /\ payloads = 1
          /\ start # NoValue
          /\ start <= end
          /\ ~ Sub64Overflows(end, start)
          /\ Difference(start, end) = end - start
          /\ Difference(start, end) >= 0
    /\ delta # NoValue => delta >= 0

C6_Witness == pc = "accumulate" /\ end > start

\* C7: main pins to core 0 before the first timestamp; a refused pin aborts
\* with no timestamp read, no payload run and nothing printed; the pin is
\* attempted once and the affinity is never set again.
C7_PinFirstAndFatal ==
    /\ pinCalls <= 1
    /\ pc = "pin" <=> pinCalls = 0
    /\ pinCalls = 1 => pinnedCore = 0
    /\ pc = "pin" =>
          issued = << >> /\ reads = << >> /\ syscalls = 0 /\ printed = << >>
    /\ (pinCalls = 1 /\ ~ pinned) =>
          /\ pc = "aborted"
          /\ issued = << >> /\ reads = << >> /\ result = NoValue
          /\ syscalls = 0 /\ printed = << >>
    /\ (issued # << >> \/ syscalls > 0 \/ printed # << >>) => pinned
    /\ pc = "aborted" => ~ pinned

C7_Witness == pc = "aborted" /\ pinCalls = 1 /\ ~ pinned

\* C9: the micro-benchmark runs exactly NUM_RUNS iterations, each with one
\* payload call between its start and end timestamps; total_difference is
\* the exact sum of the differences (the u64 accumulator never wraps), and
\* the total and floor(total / NUM_RUNS) are printed only after the loop.
C9_TotalAndMean ==
    /\ i <= NUM_RUNS
    /\ total = sumDeltas
    /\ ~ wrapped
    /\ pc \in {"ts_start", "bench"} => syscalls = i /\ payloads = 0
    /\ pc \in {"ts_end", "accumulate"} => syscalls = i + 1 /\ payloads = 1
    /\ pc = "bench" => start # NoValue /\ end = NoValue
    /\ pc = "loop" => syscalls = i
    /\ pc \in {"print_total", "print_mean", "exit"} =>
          i = NUM_RUNS /\ syscalls = NUM_RUNS
    /\ printed # << >> => i = NUM_RUNS
    /\ pc = "print_mean" => printed = << sumDeltas >>
    /\ pc = "exit" =>
          /\ Len(printed) = 2
          /\ printed[1] = sumDeltas
          /\ printed[2] * NUM_RUNS <= sumDeltas
          /\ sumDeltas < (printed[2] + 1) * NUM_RUNS

C9_Witness == pc = "exit" /\ total >= NUM_RUNS + 1

AllDone == \A u \in 1 .. Len(units) : units[u].status = "done"
SomePanicked == \E u \in 1 .. Len(units) : units[u].status = "panicked"

\* C2: a spawn-and-join group returns to its caller only when every unit it
\* spawned has completed: at the return the group holds exactly `count`
\* units, all of them completed and joined, none still running.
C2_ReturnsAfterAllCompleted ==
    phase = "returned" =>
        /\ Len(units) = CellCount(cell)
        /\ AllDone
        /\ joined = Len(units)
        /\ unwrapped = Len(units)

C2_Witness ==
    phase = "returned" /\ Len(units) >= 2 /\ ThisCell.join = "join_all"

IsMixed(c) == Cells[c].declared # "none"

\* units of the first-declared workload all precede those of the second
SubmittedInOrder(first, second) ==
    \A a, b \in 1 .. Len(units) :
        (units[a].work = second /\ units[b].work = first) => b < a

WorkFirstCell ==
    CHOOSE c \in CellIds : Cells[c].family = "task" /\ Cells[c].declared = "work_first"
SleepFirstCell ==
    CHOOSE c \in CellIds : Cells[c].family = "task" /\ Cells[c].declared = "sleep_first"

\* C3: a mixed group joins exactly compute_count + sleep_count units in both
\* declared orders, the two task orderings finish with the same count, and
\* the declared order decides only which sub-group is submitted first.
C3_MixedGroupJoinsAll ==
    /\ (IsMixed(cell) /\ phase = "returned") =>
          /\ joined = numThreads.Large + numThreads.Huge
          /\ Len(units) = joined
    /\ IsMixed(cell) =>
          /\ ThisCell.declared = "work_first" => SubmittedInOrder("fib", "sleep")
          /\ ThisCell.declared = "sleep_first" => SubmittedInOrder("sleep", "fib")
          /\ Cardinality({u \in 1 .. Len(units) : units[u].work = "fib"})
                <= numThreads.Large
          /\ Cardinality({u \in 1 .. Len(units) : units[u].work = "sleep"})
                <= numThreads.Huge
    /\ (finalCount[WorkFirstCell] # NoValue /\ finalCount[SleepFirstCell] # NoValue)
          => finalCount[WorkFirstCell] = finalCount[SleepFirstCell]

C3_Witness ==
    /\ cell = SleepFirstCell
    /\ phase = "returned"
    /\ finalCount[WorkFirstCell] >= 3
    /\ units[1].work = "sleep"
    /\ units[Len(units)].work = "fib"

\* C5: when a unit of a group terminates by panic the iteration never
\* completes normally: the panic surfaces at the join point and the
\* iteration ends aborted, whichever unit panicked and whenever.
C5_PanicReachesJoinPoint ==
    /\ [](phase = "returned" => ~ SomePanicked)
    /\ [](phase = "aborted" => SomePanicked)
    /\ (SomePanicked ~> phase = "aborted")

C5_Witness ==
    /\ phase = "aborted"
    /\ ThisCell.family = "blocking"
    /\ Len(units) >= 2
    /\ units[1].status = "done"

\* C10: when a panic aborts an OS-thread group, every other unit of the
\* group has already completed; no thread is left running or unjoined.
C10_NoOrphanOnAbort ==
    (phase = "aborted" /\ ThisCell.family = "os") =>
        \A u \in 1 .. Len(units) : Terminated(u)

HasBlockingTwin(c) ==
    \E b \in CellIds :
        /\ Cells[b].family = "blocking"
        /\ Len(Cells[b].groups) = Len(Cells[c].groups)
        /\ \A g \in 1 .. Len(Cells[c].groups) :
              /\ Cells[b].groups[g].work = Cells[c].groups[g].work
              /\ Cells[b].groups[g].level = Cells[c].groups[g].level
              /\ Cells[b].groups[g].prim = "spawn_blocking"

\* C8: every lightweight-task cell has a blocking-offload cell with the same
\* workloads and counts, and in a blocking-offload cell every unit is
\* spawned through spawn_blocking.
C8_BlockingSetParallel ==
    /\ ThisCell.family = "task" => HasBlockingTwin(cell)
    /\ ThisCell.family = "blocking" =>
          \A u \in 1 .. Len(units) : units[u].prim = "spawn_blocking"

\* C4: for every core count >= 1 the thread counts satisfy
\* 1 < Small < Large < Huge and are all at least 1; for 16 cores they are
\* 8, 64 and 2048.
C4_LevelsStrictlyIncreasing ==
    (small # Unset /\ large # Unset /\ huge # Unset) =>
        /\ 1 < small /\ small < large /\ large < huge
        /\ small >= 1 /\ large >= 1 /\ huge >= 1
        /\ coreCount = 16 => small = 8 /\ large = 64 /\ huge = 2048

====
